---- MODULE Spec2Model ----
(***************************************************************************)
(* Tic-tac-toe against a minimax AI (CP468/tictactoe).                     *)
(*   src/tictactoe.py : the game with the depth-scaled alpha-beta search   *)
(*   src/test.py      : the variant with the exhaustive alpha-beta search  *)
(* The board is self._current_moves reduced to the labels of its Move      *)
(* tuples: board[row][col] \in {"", "X", "O"}, rows and columns from 0.    *)
(***************************************************************************)
EXTENDS Integers, Sequences, FiniteSets, TLC

VARIABLES
    board,           \* TicTacToeGame._current_moves (labels)
    _has_winner,     \* TicTacToeGame._has_winner
    _winner,         \* test.py: TicTacToeGame._winner
    winner_combo,    \* TicTacToeGame.winner_combo
    current_player,  \* TicTacToeGame.current_player.label (position of the cycle)
    _cells_left,     \* tictactoe.py: TicTacToeBoard._cells_left
    display,         \* TicTacToeBoard.display["text"]
    last             \* record of the last event handled / function applied

vars == <<board, _has_winner, _winner, winner_combo, current_player,
          _cells_left, display, last>>

\* ------------------------------------------------------------------------
\* Program constants
\* ------------------------------------------------------------------------
BOARD_SIZE == 3

DEFAULT_PLAYERS == <<"X", "O">>

\* float("inf") and -float("inf"): larger in magnitude than every score
PosInf == 1000

NegInf == -1000

\* Python's None (winner of a game in progress); best_move None is <<>>
None == "None"

NoMove == <<>>

Labels == {"", "X", "O"}

\* ------------------------------------------------------------------------
\* Bounds of the checked instances
\* ------------------------------------------------------------------------
\* largest board size for which the winning lines are enumerated
MaxN == 5

\* largest number of empty cells of the boards the search is applied to
MaxEmpty == 4

\* ------------------------------------------------------------------------
\* Helpers
\* ------------------------------------------------------------------------
Idx(n) == 0 .. (n - 1)

max(a, b) == IF a >= b THEN a ELSE b

min(a, b) == IF a <= b THEN a ELSE b

\* int(x) of a quotient num/den with den > 0: truncation toward zero
IntTrunc(num, den) == IF num >= 0 THEN num \div den ELSE -((-num) \div den)

\* the list of n copies of x, indexed from 0
RECURSIVE Repeat(_, _)
Repeat(x, n) == IF n <= 0 THEN <<>> ELSE Repeat(x, n - 1) @@ ((n - 1) :> x)

\* variant: the first cell keeps a mark
BoardWithMark(n) == [Repeat(Repeat("", n), n) EXCEPT ![0][0] = "X"]

\* _setup_board / reset_game: every cell Move(row, col) with label ""
EmptyBoard(n) == Repeat(Repeat("", n), n)

\* two boards carry the same label in every cell
SameBoard(a, b) ==
    /\ DOMAIN a = DOMAIN b
    /\ \A r \in DOMAIN a :
          /\ DOMAIN a[r] = DOMAIN b[r]
          /\ \A c \in DOMAIN a[r] : a[r][c] = b[r][c]

Boards(n) == [Idx(n) -> [Idx(n) -> Labels]]

\* number of cells of b carrying label l
Count(b, l) == Cardinality({rc \in Idx(BOARD_SIZE) \X Idx(BOARD_SIZE) : b[rc[1]][rc[2]] = l})

\* ------------------------------------------------------------------------
\* TicTacToeGame._get_winning_combos for a board of size n
\* ------------------------------------------------------------------------
ComboRows(n) == [r \in 1 .. n |-> [c \in 1 .. n |-> <<r - 1, c - 1>>]]

\* zip(*rows)
ComboColumns(n) == [c \in 1 .. n |-> [r \in 1 .. n |-> ComboRows(n)[r][c]]]

\* [row[i] for i, row in enumerate(rows)]
FirstDiagonal(n) == [i \in 1 .. n |-> ComboRows(n)[i][i]]

\* variant: the second diagonal taken from the columns without reversed()
SecondDiagonalNotReversed(n) == [j \in 1 .. n |-> ComboColumns(n)[j][j]]

\* [col[j] for j, col in enumerate(reversed(columns))]
SecondDiagonal(n) == [j \in 1 .. n |-> ComboColumns(n)[n + 1 - j][j]]

get_winning_combos(n) ==
    ComboRows(n) \o ComboColumns(n) \o <<FirstDiagonal(n), SecondDiagonal(n)>>

\* self._winning_combos of the game that main() constructs
winning_combos == get_winning_combos(BOARD_SIZE)

\* ------------------------------------------------------------------------
\* Board primitives used by the search and by the handlers
\* ------------------------------------------------------------------------
\* self._current_moves[row][col].label == ""
CellFree(b, row, col) == b[row][col] = ""

\* self._current_moves[row][col] = Move(row, col, label)
Place(b, row, col, label) == [b EXCEPT ![row][col] = label]

\* variant: the simulated move is left on the board
NoUndo(b, row, col) == b

\* self._current_moves[row][col] = Move(row, col)   # Undo move
Undo(b, row, col) == [b EXCEPT ![row][col] = ""]

\* variant: any() in place of all()
LineAllAsAny(b, combo, label) ==
    \E k \in 1 .. Len(combo) : b[combo[k][1]][combo[k][2]] = label

\* all(self._current_moves[n][m].label == label for n, m in combo)
LineAll(b, combo, label) ==
    \A k \in 1 .. Len(combo) : b[combo[k][1]][combo[k][2]] = label

\* variant: all() in place of any()
LineAnyAsAll(b, combo, label) ==
    \A k \in 1 .. Len(combo) : b[combo[k][1]][combo[k][2]] = label

\* any(self._current_moves[r][c].label == label for r, c in combo)
LineAny(b, combo, label) ==
    \E k \in 1 .. Len(combo) : b[combo[k][1]][combo[k][2]] = label

\* The scan "for row in range(board_size): for col in range(board_size): if
\* label == \"\"" from position (row, col) on: the empty cells at or after
\* (row, col) in row-major order
FreeFrom(b, row, col) ==
    {rc \in Idx(BOARD_SIZE) \X Idx(BOARD_SIZE) :
        /\ rc[1] > row \/ (rc[1] = row /\ rc[2] >= col)
        /\ CellFree(b, rc[1], rc[2])}

\* the first of the cells free in row-major order, <<>> when there is none
FirstOf(free) ==
    IF free = {} THEN <<>>
    ELSE CHOOSE rc \in free :
            \A o \in free : rc[1] < o[1] \/ (rc[1] = o[1] /\ rc[2] <= o[2])

\* the cell the scan visits next from position (row, col) on, <<>> when the
\* scan ends without one
NextFree(b, row, col) == FirstOf(FreeFrom(b, row, col))

\* all(move.label for row in self._current_moves for move in row)
BoardFull(b) == \A r \in DOMAIN b : \A c \in DOMAIN b[r] : b[r][c] # ""

\* ------------------------------------------------------------------------
\* tictactoe.py: TicTacToeGame.get_winner -> (winner, combo)
\* ------------------------------------------------------------------------
RECURSIVE GetWinnerFrom(_, _)
GetWinnerFrom(b, i) ==
    IF i > Len(winning_combos)
    THEN IF BoardFull(b)
         THEN [winner |-> "TIE", combo |-> <<>>]
         ELSE [winner |-> None, combo |-> <<>>]
    ELSE IF LineAll(b, winning_combos[i], "X")
         THEN [winner |-> "X", combo |-> winning_combos[i]]
         ELSE IF LineAll(b, winning_combos[i], "O")
              THEN [winner |-> "Y", combo |-> winning_combos[i]]
              ELSE GetWinnerFrom(b, i + 1)

get_winner(b) == GetWinnerFrom(b, 1)

\* ------------------------------------------------------------------------
\* tictactoe.py: TicTacToeGame.heuristic_evaluation
\* ------------------------------------------------------------------------
RECURSIVE HeuristicFrom(_, _, _, _)
HeuristicFrom(b, i, player_score, opponent_score) ==
    IF i > Len(winning_combos)
    THEN player_score - opponent_score
    ELSE LET player_in_combo == LineAny(b, winning_combos[i], "O")
             opponent_in_combo == LineAny(b, winning_combos[i], "X")
         IN  IF player_in_combo /\ ~opponent_in_combo
             THEN HeuristicFrom(b, i + 1, player_score + 1, opponent_score)
             ELSE IF opponent_in_combo /\ ~player_in_combo
                  THEN HeuristicFrom(b, i + 1, player_score, opponent_score + 1)
                  ELSE HeuristicFrom(b, i + 1, player_score, opponent_score)

heuristic_evaluation(b) == HeuristicFrom(b, 1, 0, 0)

\* ------------------------------------------------------------------------
\* tictactoe.py: TicTacToeGame.minimax.  The search works on the shared
\* board, so every call returns its score together with the board it
\* leaves behind: [score, board].  Four more fields tell what happened in
\* this call and in the calls nested in it:
\*   restored     every call returned with the board it was entered with
\*   past_cutoff  a cell was placed and searched while beta <= alpha held
\*   cut_open     a call returned through max_depth == depth with winner None
\*   deepest      the largest value of the parameter depth
\* ------------------------------------------------------------------------
\* the branch taken when max_depth == depth or winner is not None
TerminalScore(b, winner, depth) ==
    IF winner = "X" THEN -10 + depth
    ELSE IF winner = "O" THEN 10 - depth
    ELSE IF winner = "TIE" THEN 0
    ELSE heuristic_evaluation(b)

\* The loop state is st = [board, best_score, alpha, beta, restored].
\* Maximizing branch, after the recursive call for cell (row, col) returned
\* res: undo the move, best_score = max(best_score, score),
\* alpha = max(alpha, best_score).
MaxUpdate(st, res, row, col) ==
    [restored |-> res.restored /\ st.restored,
     board |-> Undo(res.board, row, col),
     best_score |-> max(st.best_score, res.score),
     alpha |-> max(st.alpha, max(st.best_score, res.score)),
     beta |-> st.beta,
     past_cutoff |-> res.past_cutoff \/ st.past_cutoff \/ st.beta <= st.alpha,
     cut_open |-> res.cut_open \/ st.cut_open,
     deepest |-> max(st.deepest, res.deepest)]

\* Minimizing branch: best_score = min(best_score, score),
\* beta = min(beta, best_score).
MinUpdate(st, res, row, col) ==
    [restored |-> res.restored /\ st.restored,
     board |-> Undo(res.board, row, col),
     best_score |-> min(st.best_score, res.score),
     alpha |-> st.alpha,
     beta |-> min(st.beta, min(st.best_score, res.score)),
     past_cutoff |-> res.past_cutoff \/ st.past_cutoff \/ st.beta <= st.alpha,
     cut_open |-> res.cut_open \/ st.cut_open,
     deepest |-> max(st.deepest, res.deepest)]

\* return best_score, with the board the loop leaves behind; b is the board
\* the call was entered with
LoopResult(st, b) ==
    [score |-> st.best_score, board |-> st.board,
     restored |-> st.restored /\ SameBoard(st.board, b),
     past_cutoff |-> st.past_cutoff, cut_open |-> st.cut_open,
     deepest |-> st.deepest]

RECURSIVE minimax(_, _, _, _, _, _)
RECURSIVE MaxLoop(_, _, _, _, _)
RECURSIVE MinLoop(_, _, _, _, _)

\* "if beta <= alpha: break" sits in the column loop: break leaves that loop
\* only, and the scan goes on with the first column of the next row. at is
\* the cell just tried, st the loop state after its update, b the board the
\* call was entered with.
MaxAfter(st, b, at, max_depth, depth) ==
    IF st.beta <= st.alpha
    THEN MaxLoop(st, b, NextFree(st.board, at[1] + 1, 0), max_depth, depth)
    ELSE MaxLoop(st, b, NextFree(st.board, at[1], at[2] + 1), max_depth, depth)

\* variant: the break of the minimizing branch taken after every cell
MinAfterAlwaysBreak(st, b, at, max_depth, depth) ==
    MinLoop(st, b, NextFree(st.board, at[1] + 1, 0), max_depth, depth)

MinAfter(st, b, at, max_depth, depth) ==
    IF st.beta <= st.alpha
    THEN MinLoop(st, b, NextFree(st.board, at[1] + 1, 0), max_depth, depth)
    ELSE MinLoop(st, b, NextFree(st.board, at[1], at[2] + 1), max_depth, depth)

\* for row ... for col ... of the maximizing branch, from the empty cell at on
\* (<<>>: the scan is over, return best_score)
MaxLoop(st, b, at, max_depth, depth) ==
    IF at = <<>> THEN LoopResult(st, b)
    ELSE MaxAfter(MaxUpdate(st,
                       minimax(Place(st.board, at[1], at[2], "O"), FALSE,
                               st.alpha, st.beta, max_depth, depth + 1),
                       at[1], at[2]),
             b, at, max_depth, depth)

\* for row ... for col ... of the minimizing branch, from the empty cell at on
\* (<<>>: the scan is over, return best_score)
MinLoop(st, b, at, max_depth, depth) ==
    IF at = <<>> THEN LoopResult(st, b)
    ELSE MinAfter(MinUpdate(st,
                       minimax(Place(st.board, at[1], at[2], "X"), TRUE,
                               st.alpha, st.beta, max_depth, depth + 1),
                       at[1], at[2]),
             b, at, max_depth, depth)

\* variant: the depth test made one level late
MinimaxBodyLate(b, winner, is_maximizing, alpha, beta, max_depth, depth) ==
    IF max_depth + 1 = depth \/ winner # None
    THEN [score |-> TerminalScore(b, winner, depth), board |-> b,
          restored |-> TRUE, past_cutoff |-> FALSE,
          cut_open |-> (winner = None), deepest |-> depth]
    ELSE IF is_maximizing
         THEN MaxLoop([board |-> b, best_score |-> NegInf,
                       alpha |-> alpha, beta |-> beta, restored |-> TRUE,
                       past_cutoff |-> FALSE, cut_open |-> FALSE,
                       deepest |-> depth],
                      b, NextFree(b, 0, 0), max_depth, depth)
         ELSE MinLoop([board |-> b, best_score |-> PosInf,
                       alpha |-> alpha, beta |-> beta, restored |-> TRUE,
                       past_cutoff |-> FALSE, cut_open |-> FALSE,
                       deepest |-> depth],
                      b, NextFree(b, 0, 0), max_depth, depth)

\* the body of minimax once winner, _ = self.get_winner() is known
MinimaxBody(b, winner, is_maximizing, alpha, beta, max_depth, depth) ==
    IF max_depth = depth \/ winner # None
    THEN [score |-> TerminalScore(b, winner, depth), board |-> b,
          restored |-> TRUE, past_cutoff |-> FALSE,
          cut_open |-> (winner = None), deepest |-> depth]
    ELSE IF is_maximizing
         THEN MaxLoop([board |-> b, best_score |-> NegInf,
                       alpha |-> alpha, beta |-> beta, restored |-> TRUE,
                       past_cutoff |-> FALSE, cut_open |-> FALSE,
                       deepest |-> depth],
                      b, NextFree(b, 0, 0), max_depth, depth)
         ELSE MinLoop([board |-> b, best_score |-> PosInf,
                       alpha |-> alpha, beta |-> beta, restored |-> TRUE,
                       past_cutoff |-> FALSE, cut_open |-> FALSE,
                       deepest |-> depth],
                      b, NextFree(b, 0, 0), max_depth, depth)

minimax(b, is_maximizing, alpha, beta, max_depth, depth) ==
    MinimaxBody(b, get_winner(b).winner, is_maximizing, alpha, beta,
                max_depth, depth)

\* ------------------------------------------------------------------------
\* tictactoe.py: TicTacToeGame.ai -> [best_move, board] (with best_score)
\* ------------------------------------------------------------------------
\* variant: the base depth alone, without the growth term
DepthBoundFlat(cells_left) == 2

\* variant: the growth term alone, without the base depth
DepthBoundNoBase(cells_left) ==
    IntTrunc((BOARD_SIZE * BOARD_SIZE - cells_left) * 2,
             BOARD_SIZE * BOARD_SIZE)

\* 2 + int(((max_cells - cells_left) / max_cells) * 2)
DepthBound(cells_left) ==
    2 + IntTrunc((BOARD_SIZE * BOARD_SIZE - cells_left) * 2,
                 BOARD_SIZE * BOARD_SIZE)

\* variant: a later cell with an equal score replaces the best move
ImprovesOrTies(score, best_score) == score >= best_score

\* if score > best_score
Improves(score, best_score) == score > best_score

\* The loop state is st = [board, best_score, best_move] with the fields
\* restored, past_cutoff, cut_open, deepest of the search; after the call for
\* cell (row, col) returned res: undo the move, keep the better candidate.
AiUpdate(st, res, row, col) ==
    IF Improves(res.score, st.best_score)
    THEN [board |-> Undo(res.board, row, col), best_score |-> res.score,
          best_move |-> <<row, col>>,
          restored |-> st.restored /\ res.restored,
          past_cutoff |-> st.past_cutoff \/ res.past_cutoff,
          cut_open |-> st.cut_open \/ res.cut_open,
          deepest |-> max(st.deepest, res.deepest)]
    ELSE [board |-> Undo(res.board, row, col), best_score |-> st.best_score,
          best_move |-> st.best_move,
          restored |-> st.restored /\ res.restored,
          past_cutoff |-> st.past_cutoff \/ res.past_cutoff,
          cut_open |-> st.cut_open \/ res.cut_open,
          deepest |-> max(st.deepest, res.deepest)]

RECURSIVE AiLoop(_, _, _)
AiAfter(st, at, cells_left) ==
    AiLoop(st, NextFree(st.board, at[1], at[2] + 1), cells_left)

\* for row ... for col ... of ai, from the empty cell at on
AiLoop(st, at, cells_left) ==
    IF at = <<>> THEN st
    ELSE AiAfter(AiUpdate(st,
                        minimax(Place(st.board, at[1], at[2], "O"), FALSE,
                                NegInf, PosInf, DepthBound(cells_left), 0),
                        at[1], at[2]), at, cells_left)

ai(b, cells_left) ==
    AiLoop([board |-> b, best_score |-> NegInf, best_move |-> NoMove,
            restored |-> TRUE, past_cutoff |-> FALSE, cut_open |-> FALSE,
            deepest |-> 0],
           NextFree(b, 0, 0), cells_left)

\* ------------------------------------------------------------------------
\* tictactoe.py: the handlers of TicTacToeBoard (the game loop)
\* ------------------------------------------------------------------------
Cells == Idx(BOARD_SIZE) \X Idx(BOARD_SIZE)

\* variant: is_valid_move without the no_winner conjunct
is_valid_move_ignoring_winner(b, hw, row, col) == b[row][col] = ""

\* TicTacToeGame.is_valid_move
is_valid_move(b, hw, row, col) ==
    LET move_was_not_played == b[row][col] = ""
        no_winner == ~hw
    IN  no_winner /\ move_was_not_played

\* TicTacToeGame.toggle_player: next(self._players) over cycle(players)
toggle_player(p) == IF p = DEFAULT_PLAYERS[1] THEN DEFAULT_PLAYERS[2]
                    ELSE DEFAULT_PLAYERS[1]

\* variant: a tie is not taken as the end of the game
TruthyButTie(w) == w # None /\ w # "" /\ w # "TIE"

\* Python truth value of get_winner's first component ("if winner:")
Truthy(w) == w # None /\ w # ""

\* variant: a win leaves _has_winner as it was
handle_game_end_unflagged(hw, w) ==
    IF w = "TIE"
    THEN [has_winner |-> hw, display |-> "Tied game!"]
    ELSE [has_winner |-> hw, display |-> "Player \"" \o w \o "\" won!"]

\* TicTacToeBoard._handle_game_end: [has_winner, display]
handle_game_end(hw, w) ==
    IF w = "TIE"
    THEN [has_winner |-> hw, display |-> "Tied game!"]
    ELSE [has_winner |-> TRUE, display |-> "Player \"" \o w \o "\" won!"]

turn_msg(p) == p \o "'s turn"

\* the part of `last` that describes one event of the game loop
NoAi == [ai_called |-> FALSE, ai_board |-> EmptyBoard(BOARD_SIZE),
         ai_cells_left |-> 0, ai_move |-> NoMove,
         ai_board_after |-> EmptyBoard(BOARD_SIZE), ai_restored |-> TRUE,
         ai_label |-> "", ai_cut_open |-> FALSE, ai_deepest |-> 0]

Event(kind, row, col, accepted, label, aipart) ==
    [kind |-> kind, row |-> row, col |-> col, accepted |-> accepted,
     label |-> label] @@ aipart

\* what _handle_ai_move records of its call of ai
AiPart(b, cl, res) ==
    [ai_called |-> TRUE, ai_board |-> b, ai_cells_left |-> cl,
     ai_move |-> res.best_move, ai_board_after |-> res.board,
     ai_restored |-> res.restored,
     ai_label |-> IF res.best_move = NoMove THEN "" ELSE "O",
     ai_cut_open |-> res.cut_open, ai_deepest |-> res.deepest]

\* _handle_ai_move after self._game._current_moves[row][col] = move:
\* b2 is the board with the AI's mark, w the winner get_winner reports
AiMoveEnd(b2, w, hw, p, aipart) ==
    IF Truthy(w)
    THEN [board |-> b2, has_winner |-> handle_game_end(hw, w).has_winner,
          current_player |-> p, display |-> handle_game_end(hw, w).display,
          ai |-> aipart, crashed |-> FALSE]
    ELSE [board |-> b2, has_winner |-> hw,
          current_player |-> toggle_player(p),
          display |-> turn_msg(toggle_player(p)),
          ai |-> aipart, crashed |-> FALSE]

AiMovePlaced(b2, hw, p, aipart) ==
    AiMoveEnd(b2, get_winner(b2).winner, hw, p, aipart)

\* _handle_ai_move once ai has returned res
AiMoveApply(res, b, hw, p, cl) ==
    IF res.best_move = NoMove
    THEN \* row, col = None raises TypeError: the handler stops here
         [board |-> res.board, has_winner |-> hw, current_player |-> p,
          display |-> turn_msg(p), ai |-> AiPart(b, cl, res), crashed |-> TRUE]
    ELSE AiMovePlaced(Place(res.board, res.best_move[1], res.best_move[2], "O"),
                      hw, p, AiPart(b, cl, res))

\* TicTacToeBoard._handle_ai_move on board b with self._cells_left = cl and
\* current player p: [board, has_winner, current_player, display, ai, crashed]
handle_ai_move(b, hw, p, cl) == AiMoveApply(ai(b, cl), b, hw, p, cl)

\* variant: without the _cells_left -= 1 that follows _handle_ai_move
PlayContinueUncounted(am, row, col, label) ==
    /\ board' = am.board
    /\ _has_winner' = am.has_winner
    /\ current_player' = am.current_player
    /\ display' = am.display
    /\ _cells_left' = _cells_left - 1
    /\ last' = Event("play", row, col, TRUE, label, am.ai)
    /\ UNCHANGED <<_winner, winner_combo>>

\* play, the else branch: toggle_player, _handle_ai_move, _cells_left -= 1
PlayContinue(am, row, col, label) ==
    /\ board' = am.board
    /\ _has_winner' = am.has_winner
    /\ current_player' = am.current_player
    /\ display' = am.display
    /\ _cells_left' = IF am.crashed THEN _cells_left - 1 ELSE _cells_left - 2
    /\ last' = Event("play", row, col, TRUE, label, am.ai)
    /\ UNCHANGED <<_winner, winner_combo>>

\* play, the branch "if winner": _handle_game_end
PlayEnd(b1, ge, row, col, label) ==
    /\ board' = b1
    /\ _has_winner' = ge.has_winner
    /\ display' = ge.display
    /\ _cells_left' = _cells_left - 1
    /\ last' = Event("play", row, col, TRUE, label, NoAi)
    /\ UNCHANGED <<_winner, winner_combo, current_player>>

\* play after self._game._current_moves[row][col] = move: b1 is the board
\* with the human's mark, w the winner get_winner reports
PlayPlaced(b1, w, row, col, label) ==
    IF Truthy(w)
    THEN PlayEnd(b1, handle_game_end(_has_winner, w), row, col, label)
    ELSE PlayContinue(handle_ai_move(b1, _has_winner,
                                     toggle_player(current_player),
                                     _cells_left - 1),
                      row, col, label)

PlayAccepted(b1, row, col, label) ==
    PlayPlaced(b1, get_winner(b1).winner, row, col, label)

\* TicTacToeBoard.play for a click on the button of cell (row, col)
play(row, col) ==
    IF ~is_valid_move(board, _has_winner, row, col)
    THEN /\ last' = Event("play", row, col, FALSE, current_player, NoAi)
         /\ UNCHANGED <<board, _has_winner, _winner, winner_combo,
                        current_player, _cells_left, display>>
    ELSE PlayAccepted(Place(board, row, col, current_player), row, col,
                      current_player)

Play == \E rc \in Cells : play(rc[1], rc[2])

\* variant: reset_board without the toggle
keep_player(p) == p

\* reset_board: if current_player.label == "O": toggle_player()
reset_player(p) == IF p = "O" THEN toggle_player(p) ELSE p

\* TicTacToeBoard.reset_board (menu "Play Again"), with TicTacToeGame.reset_game
ResetBoard ==
    /\ board' = EmptyBoard(BOARD_SIZE)
    /\ _has_winner' = FALSE
    /\ winner_combo' = <<>>
    /\ display' = "Ready?"
    /\ current_player' = reset_player(current_player)
    /\ _cells_left' = BOARD_SIZE * BOARD_SIZE
    /\ last' = Event("reset", -1, -1, FALSE, "", NoAi)
    /\ UNCHANGED _winner

\* TicTacToeGame.__init__ and TicTacToeBoard.__init__ as main() runs them
Init ==
    /\ board = EmptyBoard(BOARD_SIZE)
    /\ _has_winner = FALSE
    /\ _winner = ""
    /\ winner_combo = <<>>
    /\ current_player = DEFAULT_PLAYERS[1]
    /\ _cells_left = BOARD_SIZE * BOARD_SIZE
    /\ display = "Ready?"
    /\ last = Event("init", -1, -1, FALSE, "", NoAi)

Next == Play \/ ResetBoard

Spec == Init /\ [][Next]_vars

\* ------------------------------------------------------------------------
\* The functions of TicTacToeGame applied to arbitrary boards
\* ------------------------------------------------------------------------
\* the state of a game object whose board holds b, before any call
Input(b) ==
    /\ board = b
    /\ _has_winner = FALSE
    /\ _winner = ""
    /\ winner_combo = <<>>
    /\ current_player = DEFAULT_PLAYERS[1]
    /\ _cells_left = BOARD_SIZE * BOARD_SIZE
    /\ display = "Ready?"
    /\ last = [kind |-> "input"]

Frame == UNCHANGED <<_has_winner, _winner, winner_combo, current_player,
                     _cells_left, display>>

\* winner, combo = self.get_winner()
CallGetWinner ==
    /\ last.kind = "input"
    /\ last' = [kind |-> "get_winner", res |-> get_winner(board)]
    /\ UNCHANGED board
    /\ Frame

\* self.heuristic_evaluation()
CallHeuristic ==
    /\ last.kind = "input"
    /\ last' = [kind |-> "heuristic_evaluation",
                res |-> heuristic_evaluation(board)]
    /\ UNCHANGED board
    /\ Frame

\* self._get_winning_combos() of a game constructed with board_size = n
CallWinningCombos ==
    \E n \in 1 .. MaxN :
        /\ last.kind = "input"
        /\ last' = [kind |-> "get_winning_combos", n |-> n,
                    res |-> get_winning_combos(n)]
        /\ UNCHANGED board
        /\ Frame

InitBoard == \E b \in Boards(BOARD_SIZE) : Input(b)

NextBoard == CallGetWinner \/ CallHeuristic \/ CallWinningCombos

SpecBoard == InitBoard /\ [][NextBoard]_vars

\* ------------------------------------------------------------------------
\* The search applied to arbitrary boards
\* ------------------------------------------------------------------------
\* the values of cells_left: 0 .. board_size**2
CellsLeftRange == 0 .. (BOARD_SIZE * BOARD_SIZE)

\* the depth bounds ai passes to minimax
DepthBounds == {DepthBound(cl) : cl \in CellsLeftRange}

\* The boards the search meets: X moves first and the marks alternate, so X
\* leads by 0 or 1; at most MaxEmpty cells are empty.
SearchBoards ==
    {b \in Boards(BOARD_SIZE) :
        /\ Count(b, "") <= MaxEmpty
        /\ Count(b, "X") - Count(b, "O") \in {0, 1}}

AiCallDone(b, cl, res) ==
    /\ board' = res.board
    /\ last' = [kind |-> "ai", board_before |-> b, cells_left |-> cl,
                best_move |-> res.best_move, best_score |-> res.best_score,
                restored |-> res.restored, past_cutoff |-> res.past_cutoff,
                cut_open |-> res.cut_open, deepest |-> res.deepest]
    /\ Frame

\* self.ai(cells_left)
CallAi ==
    \E cl \in CellsLeftRange :
        /\ last.kind = "input"
        /\ AiCallDone(board, cl, ai(board, cl))

MinimaxCallDone(b, is_maximizing, max_depth, depth, res) ==
    /\ board' = res.board
    /\ last' = [kind |-> "minimax", board_before |-> b,
                is_maximizing |-> is_maximizing, max_depth |-> max_depth,
                depth |-> depth, score |-> res.score,
                restored |-> res.restored, past_cutoff |-> res.past_cutoff,
                cut_open |-> res.cut_open, deepest |-> res.deepest]
    /\ Frame

\* self.minimax(is_maximizing, -inf, inf, max_depth, depth)
CallMinimax ==
    \E is_maximizing \in BOOLEAN, max_depth \in DepthBounds :
        \E depth \in 0 .. max_depth :
            /\ last.kind = "input"
            /\ MinimaxCallDone(board, is_maximizing, max_depth, depth,
                               minimax(board, is_maximizing, NegInf, PosInf,
                                       max_depth, depth))

InitSearch == \E b \in SearchBoards : Input(b)

NextSearch == CallAi \/ CallMinimax

SpecSearch == InitSearch /\ [][NextSearch]_vars

\* ------------------------------------------------------------------------
\* test.py: the variant with the exhaustive search
\* ------------------------------------------------------------------------
\* test.py: TicTacToeGame.get_winner -> winner
\* the combos of self._winning_combos (by position) that one player fills
CompleteCombos(b) ==
    {i \in 1..Len(winning_combos) :
        LineAll(b, winning_combos[i], "X") \/ LineAll(b, winning_combos[i], "O")}

\* for combo in self._winning_combos: the first complete combo decides;
\* without one, "TIE" if the board is full, else None
WinnerOfCombos(b, complete) ==
    IF complete = {}
    THEN IF BoardFull(b) THEN "TIE" ELSE None
    ELSE IF LineAll(b, winning_combos[CHOOSE i \in complete :
                                         \A j \in complete : i <= j], "X")
         THEN "X"
         ELSE "Y"

get_winner_test(b) == WinnerOfCombos(b, CompleteCombos(b))

\* variant: a win of X scored like a tie
TerminalScoreTestBlind(w, depth) ==
    IF w = "X" THEN <<0>>
    ELSE IF w = "Y" THEN <<10 - depth>>
    ELSE IF w = "TIE" THEN <<0>>
    ELSE <<>>

\* the returns of minimax for a decided position; <<>> when it is undecided
TerminalScoreTest(w, depth) ==
    IF w = "X" THEN <<-10 + depth>>
    ELSE IF w = "Y" THEN <<10 - depth>>
    ELSE IF w = "TIE" THEN <<0>>
    ELSE <<>>

RECURSIVE minimax_test(_, _, _, _, _)
RECURSIVE MaxLoopTest(_, _, _, _)
RECURSIVE MinLoopTest(_, _, _, _)

\* if beta <= alpha: break, in the column loop as in tictactoe.py
MaxAfterTest(st, b, at, depth) ==
    IF st.beta <= st.alpha
    THEN MaxLoopTest(st, b, NextFree(st.board, at[1] + 1, 0), depth)
    ELSE MaxLoopTest(st, b, NextFree(st.board, at[1], at[2] + 1), depth)

MinAfterTest(st, b, at, depth) ==
    IF st.beta <= st.alpha
    THEN MinLoopTest(st, b, NextFree(st.board, at[1] + 1, 0), depth)
    ELSE MinLoopTest(st, b, NextFree(st.board, at[1], at[2] + 1), depth)

MaxLoopTest(st, b, at, depth) ==
    IF at = <<>> THEN LoopResult(st, b)
    ELSE MaxAfterTest(MaxUpdate(st,
                       minimax_test(Place(st.board, at[1], at[2], "O"), FALSE,
                               st.alpha, st.beta, depth + 1),
                       at[1], at[2]),
             b, at, depth)

MinLoopTest(st, b, at, depth) ==
    IF at = <<>> THEN LoopResult(st, b)
    ELSE MinAfterTest(MinUpdate(st,
                       minimax_test(Place(st.board, at[1], at[2], "X"), TRUE,
                               st.alpha, st.beta, depth + 1),
                       at[1], at[2]),
             b, at, depth)

MinimaxBodyTest(b, term, is_maximizing, alpha, beta, depth) ==
    IF term # <<>>
    THEN [score |-> term[1], board |-> b, restored |-> TRUE,
          past_cutoff |-> FALSE, cut_open |-> FALSE, deepest |-> depth]
    ELSE IF is_maximizing
         THEN MaxLoopTest([board |-> b, best_score |-> NegInf,
                           alpha |-> alpha, beta |-> beta,
                           restored |-> TRUE, past_cutoff |-> FALSE,
                           cut_open |-> FALSE, deepest |-> depth],
                          b, NextFree(b, 0, 0), depth)
         ELSE MinLoopTest([board |-> b, best_score |-> PosInf,
                           alpha |-> alpha, beta |-> beta,
                           restored |-> TRUE, past_cutoff |-> FALSE,
                           cut_open |-> FALSE, deepest |-> depth],
                          b, NextFree(b, 0, 0), depth)

\* test.py: TicTacToeGame.minimax(is_maximizing, alpha, beta, depth)
minimax_test(b, is_maximizing, alpha, beta, depth) ==
    MinimaxBodyTest(b, TerminalScoreTest(get_winner_test(b), depth),
                    is_maximizing, alpha, beta, depth)

RECURSIVE AiLoopTest(_, _)
AiAfterTest(st, at) ==
    AiLoopTest(st, NextFree(st.board, at[1], at[2] + 1))

AiLoopTest(st, at) ==
    IF at = <<>> THEN st
    ELSE AiAfterTest(AiUpdate(st,
                        minimax_test(Place(st.board, at[1], at[2], "O"), FALSE,
                                     NegInf, PosInf, 0),
                        at[1], at[2]), at)

\* test.py: TicTacToeGame.ai()
ai_test(b) ==
    AiLoopTest([board |-> b, best_score |-> NegInf, best_move |-> NoMove,
                restored |-> TRUE, past_cutoff |-> FALSE, cut_open |-> FALSE,
                deepest |-> 0], NextFree(b, 0, 0))

\* results = set(labels of combo); len(results) == 1 and "" not in results
IsWin(b, combo) ==
    /\ Cardinality({b[combo[k][1]][combo[k][2]] : k \in 1 .. Len(combo)}) = 1
    /\ \A k \in 1 .. Len(combo) : b[combo[k][1]][combo[k][2]] # ""

\* the loop of process_move over self._winning_combos, from combo i on:
\* [has_winner, winner_combo, winner]
RECURSIVE ProcessFrom(_, _, _, _)
ProcessFrom(b, i, player, st) ==
    IF i > Len(winning_combos) THEN st
    ELSE IF IsWin(b, winning_combos[i])
         THEN [has_winner |-> TRUE, winner_combo |-> winning_combos[i],
               winner |-> player]
         ELSE ProcessFrom(b, i + 1, player, st)

\* test.py: TicTacToeGame.process_move(Move(row, col, player))
process_move(row, col, player) ==
    /\ board' = Place(board, row, col, player)
    /\ _has_winner' = ProcessFrom(Place(board, row, col, player), 1, player,
                                  [has_winner |-> _has_winner,
                                   winner_combo |-> winner_combo,
                                   winner |-> _winner]).has_winner
    /\ winner_combo' = ProcessFrom(Place(board, row, col, player), 1, player,
                                   [has_winner |-> _has_winner,
                                    winner_combo |-> winner_combo,
                                    winner |-> _winner]).winner_combo
    /\ _winner' = ProcessFrom(Place(board, row, col, player), 1, player,
                              [has_winner |-> _has_winner,
                               winner_combo |-> winner_combo,
                               winner |-> _winner]).winner

\* test.py: TicTacToeGame.is_tied
is_tied(b, hw) == ~hw /\ BoardFull(b)

\* the game goes on: neither is_tied() nor has_winner()
GameOn == ~is_tied(board, _has_winner) /\ ~_has_winner

\* Self-play on test.py: a driver calls the methods of one TicTacToeGame in
\* turn, the AI (O) first.  The turn is the driver's (last.kind names the
\* call made before); the methods called write neither current_player nor
\* the display of TicTacToeBoard, which stay as construction left them.
\* row, col = game.ai(); game.process_move(Move(row, col, "O"))
AiMoveTest(res) ==
    /\ res.best_move # NoMove
    /\ process_move(res.best_move[1], res.best_move[2], "O")
    /\ last' = [kind |-> "ai", row |-> res.best_move[1],
                col |-> res.best_move[2], restored |-> res.restored]
    /\ UNCHANGED <<current_player, _cells_left, display>>

\* the AI's call, first and after each move of the opponent
SelfPlayAi ==
    /\ GameOn
    /\ last.kind \in {"init", "opponent"}
    /\ AiMoveTest(ai_test(board))

\* the opponent's call, after each move of the AI: any cell for which
\* game.is_valid_move(Move(row, col, "X")) holds;
\* game.process_move(Move(row, col, "X"))
SelfPlayOpponent ==
    \E rc \in Cells :
        /\ GameOn
        /\ last.kind = "ai"
        /\ is_valid_move(board, _has_winner, rc[1], rc[2])
        /\ process_move(rc[1], rc[2], "X")
        /\ last' = [kind |-> "opponent", row |-> rc[1], col |-> rc[2],
                    restored |-> TRUE]
        /\ UNCHANGED <<current_player, _cells_left, display>>

\* the game as TicTacToeGame() constructs it: an empty board, no winner,
\* current_player = next(self._players), the first of DEFAULT_PLAYERS
InitSelfPlay ==
    /\ board = EmptyBoard(BOARD_SIZE)
    /\ _has_winner = FALSE
    /\ _winner = ""
    /\ winner_combo = <<>>
    /\ current_player = DEFAULT_PLAYERS[1]
    /\ _cells_left = BOARD_SIZE * BOARD_SIZE
    /\ display = "Ready?"
    /\ last = [kind |-> "init", row |-> -1, col |-> -1, restored |-> TRUE]

NextSelfPlay == SelfPlayAi \/ SelfPlayOpponent

SpecSelfPlay == InitSelfPlay /\ [][NextSelfPlay]_vars

\* ------------------------------------------------------------------------
\* test.py: getWinner, a method of TicTacToeGame that nothing calls
\* ------------------------------------------------------------------------
\* the loop of getWinner over self._winning_combos, from combo i on: the
\* player of the move at the first complete line, None when the loop ends
RECURSIVE GetWinnerMoveFrom(_, _, _)
GetWinnerMoveFrom(b, i, player) ==
    IF i > Len(winning_combos) THEN None
    ELSE IF IsWin(b, winning_combos[i]) THEN player
         ELSE GetWinnerMoveFrom(b, i + 1, player)

\* getWinner(Move(row, col, player)): the move is written to the board,
\* whatever the cell held; [board, returned]
getWinner(b, row, col, player) ==
    [board |-> Place(b, row, col, player),
     returned |-> GetWinnerMoveFrom(Place(b, row, col, player), 1, player)]

\* a call of getWinner on a given board: only the board is written, the
\* winner flag, the winning combo and the winner stay as they were
CallGetWinnerMove ==
    \E rc \in Cells : \E player \in {"X", "O"} :
        /\ last.kind = "input"
        /\ board' = getWinner(board, rc[1], rc[2], player).board
        /\ last' = [kind |-> "getWinner", row |-> rc[1], col |-> rc[2],
                    label |-> player,
                    returned |->
                        getWinner(board, rc[1], rc[2], player).returned]
        /\ Frame

NextGetWinnerMove == CallGetWinnerMove

SpecGetWinnerMove == InitBoard /\ [][NextGetWinnerMove]_vars

\* ------------------------------------------------------------------------
\* test.py: the handlers of TicTacToeBoard (the game loop of the variant)
\* ------------------------------------------------------------------------
\* the game object after process_move(Move(row, col, player)):
\* [board, has_winner, winner_combo, winner]
process_move_result(b, hw, wc, w, row, col, player) ==
    [board |-> Place(b, row, col, player)] @@
    ProcessFrom(Place(b, row, col, player), 1, player,
                [has_winner |-> hw, winner_combo |-> wc, winner |-> w])

\* the message of the branches "if is_tied() ... elif has_winner() ..." of
\* play for the game g and the current player p; "" when the game goes on
end_msg(g, p) ==
    IF is_tied(g.board, g.has_winner) THEN "Tied game!"
    ELSE IF g.has_winner THEN "Player \"" \o p \o "\" won!"
    ELSE ""

\* the part of `last` that describes one event of the game loop of test.py
EventTest(kind, row, col, accepted, label, ai_called, ai_move) ==
    [kind |-> kind, row |-> row, col |-> col, accepted |-> accepted,
     label |-> label, ai_called |-> ai_called, ai_move |-> ai_move]

\* the state play leaves: the game g, the current player p, the display
PlayTestDone(g, p, msg, ev) ==
    /\ board' = g.board
    /\ _has_winner' = g.has_winner
    /\ winner_combo' = g.winner_combo
    /\ _winner' = g.winner
    /\ current_player' = p
    /\ display' = msg
    /\ last' = ev
    /\ UNCHANGED _cells_left

\* play after the AI's process_move left g2, with msg2 = end_msg(g2, p1)
PlayTestAiPlaced(g2, p1, msg2, ev) ==
    IF msg2 # ""
    THEN PlayTestDone(g2, p1, msg2, ev)
    ELSE PlayTestDone(g2, toggle_player(p1), turn_msg(toggle_player(p1)), ev)

\* play once ai() has returned res: g1 is the game after the human's move,
\* p1 the player after toggle_player()
PlayTestAi(g1, p1, res, row, col, p) ==
    IF res.best_move = NoMove
    THEN \* row, col = None raises TypeError: the handler stops here
         PlayTestDone([g1 EXCEPT !.board = res.board], p1, display,
                      EventTest("play", row, col, TRUE, p, TRUE, NoMove))
    ELSE PlayTestAiPlaced(
             process_move_result(res.board, g1.has_winner, g1.winner_combo,
                                 g1.winner, res.best_move[1],
                                 res.best_move[2], "O"),
             p1,
             end_msg(process_move_result(res.board, g1.has_winner,
                                         g1.winner_combo, g1.winner,
                                         res.best_move[1], res.best_move[2],
                                         "O"), p1),
             EventTest("play", row, col, TRUE, p, TRUE, res.best_move))

\* play after the human's process_move left g1, with msg1 = end_msg(g1, p)
PlayTestPlaced(g1, msg1, row, col, p) ==
    IF msg1 # ""
    THEN PlayTestDone(g1, p, msg1,
                      EventTest("play", row, col, TRUE, p, FALSE, NoMove))
    ELSE PlayTestAi(g1, toggle_player(p), ai_test(g1.board), row, col, p)

\* test.py: TicTacToeBoard.play for a click on the button of cell (row, col)
play_test(row, col) ==
    IF ~is_valid_move(board, _has_winner, row, col)
    THEN /\ last' = EventTest("play", row, col, FALSE, current_player,
                              FALSE, NoMove)
         /\ UNCHANGED <<board, _has_winner, _winner, winner_combo,
                        current_player, _cells_left, display>>
    ELSE PlayTestPlaced(
             process_move_result(board, _has_winner, winner_combo, _winner,
                                 row, col, current_player),
             end_msg(process_move_result(board, _has_winner, winner_combo,
                                         _winner, row, col, current_player),
                     current_player),
             row, col, current_player)

PlayTest == \E rc \in Cells : play_test(rc[1], rc[2])

\* test.py: TicTacToeBoard.reset_board, with TicTacToeGame.reset_game:
\* toggle_player() is called whoever the current player is
ResetBoardTest ==
    /\ board' = EmptyBoard(BOARD_SIZE)
    /\ _has_winner' = FALSE
    /\ winner_combo' = <<>>
    /\ display' = "Ready?"
    /\ current_player' = toggle_player(current_player)
    /\ last' = EventTest("reset", -1, -1, FALSE, "", FALSE, NoMove)
    /\ UNCHANGED <<_winner, _cells_left>>

\* test.py: TicTacToeGame.__init__ and TicTacToeBoard.__init__ as main() runs
\* them
InitTest ==
    /\ board = EmptyBoard(BOARD_SIZE)
    /\ _has_winner = FALSE
    /\ _winner = ""
    /\ winner_combo = <<>>
    /\ current_player = DEFAULT_PLAYERS[1]
    /\ _cells_left = BOARD_SIZE * BOARD_SIZE
    /\ display = "Ready?"
    /\ last = EventTest("init", -1, -1, FALSE, "", FALSE, NoMove)

NextTest == PlayTest \/ ResetBoardTest

SpecTest == InitTest /\ [][NextTest]_vars

\* ------------------------------------------------------------------------
\* Properties.  The lines of the board are stated here on their own, as sets
\* of cells, and not through self._winning_combos.
\* ------------------------------------------------------------------------
RowCells(n, r) == {<<r, c>> : c \in Idx(n)}

ColumnCells(n, c) == {<<r, c>> : r \in Idx(n)}

DiagonalCells(n) == {<<i, i>> : i \in Idx(n)}

AntiDiagonalCells(n) == {<<i, n - 1 - i>> : i \in Idx(n)}

Lines(n) ==
    {RowCells(n, r) : r \in Idx(n)} \cup {ColumnCells(n, c) : c \in Idx(n)}
        \cup {DiagonalCells(n), AntiDiagonalCells(n)}

\* every cell of the line carries mark m
Filled(b, line, m) == \A rc \in line : b[rc[1]][rc[2]] = m

\* mark m has a complete line on the 3x3 board b
HasLine(b, m) == \E line \in Lines(BOARD_SIZE) : Filled(b, line, m)

\* the game on b is over: a complete line, or no empty cell
Decided(b) == HasLine(b, "X") \/ HasLine(b, "O") \/ Count(b, "") = 0

\* the cells of a combo (a sequence of <<row, col>>)
CellsOf(combo) == {combo[k] : k \in 1 .. Len(combo)}

\* the board given row by row
BoardOf(rows) ==
    (0 :> (0 :> rows[1][1] @@ 1 :> rows[1][2] @@ 2 :> rows[1][3])) @@
    (1 :> (0 :> rows[2][1] @@ 1 :> rows[2][2] @@ 2 :> rows[2][3])) @@
    (2 :> (0 :> rows[3][1] @@ 1 :> rows[3][2] @@ 2 :> rows[3][3]))

\* rc comes no later than o in row-major order
RowMajorLeq(rc, o) == rc[1] < o[1] \/ (rc[1] = o[1] /\ rc[2] <= o[2])

\* ------------------------------------------------------------------------
\* C1 (as stated): in the game loop of tictactoe.py, whatever cells the human
\* clicks, X never has a complete line on the board.  The depth-bounded
\* search does not guarantee this: the game loop reaches boards won by X.
\* ------------------------------------------------------------------------
C1_XNeverCompletesALine == ~HasLine(board, "X")

\* ------------------------------------------------------------------------
\* C2: with the exhaustive search of test.py, the AI moving first as O from
\* the empty board and X answering with any legal cell, X never completes a
\* line and is never recorded as the winner; a game that is over is a tie or
\* a win of O.
\* ------------------------------------------------------------------------
C2_ExhaustiveSearchNeverLoses ==
    /\ ~HasLine(board, "X")
    /\ _winner # "X"
    /\ ~GameOn => \/ is_tied(board, _has_winner)
                  \/ (_winner = "O" /\ HasLine(board, "O"))

\* a game that X played to the end and O won
C2_GameWonByO ==
    /\ ~GameOn
    /\ _has_winner
    /\ _winner = "O"
    /\ HasLine(board, "O")
    /\ Count(board, "X") >= 3

\* ------------------------------------------------------------------------
\* C3: when ai or minimax returns, the board is cell for cell the board of
\* the moment of the call, and so it was at the return of every minimax call
\* nested in it (decided and depth cut-off returns and loops left by the
\* pruning break included).
\* ------------------------------------------------------------------------
C3_SearchRestoresBoard ==
    last.kind \in {"ai", "minimax"} =>
        /\ SameBoard(board, last.board_before)
        /\ last.restored

\* a minimax call that searched at least two plies below an undecided board
C3_DeepSearchReturned ==
    /\ last.kind = "minimax"
    /\ ~Decided(last.board_before)
    /\ Count(last.board_before, "") >= 3
    /\ last.depth + 2 <= last.max_depth
    /\ last.restored

\* ------------------------------------------------------------------------
\* C4: a click on an occupied cell, or any click once the game is won or
\* tied, changes neither the board nor _has_winner, _cells_left and
\* current_player and triggers no AI move; a decided game keeps its board
\* and its outcome under every click, until reset_board.
\* ------------------------------------------------------------------------
C4_RejectedClickChangesNothing ==
    [][/\ (/\ last'.kind = "play"
           /\ (board[last'.row][last'.col] # "" \/ Decided(board)))
          => /\ UNCHANGED <<board, _has_winner, _cells_left, current_player>>
             /\ ~last'.accepted
             /\ ~last'.ai_called
       /\ (Decided(board) /\ last'.kind # "reset")
          => /\ UNCHANGED <<board, _has_winner>>
             /\ Decided(board')
      ]_vars

\* a click on an empty cell of a won game was turned down
C4_ClickAfterWinRejected ==
    /\ last.kind = "play"
    /\ ~last.accepted
    /\ _has_winner
    /\ board[last.row][last.col] = ""

\* ------------------------------------------------------------------------
\* C5: get_winner reports a win with a line iff some line is filled with one
\* mark, and the line it reports is a line of the board filled with one
\* mark (X when it reports X); without such a line it reports a tie iff no
\* cell is empty, else None, both with an empty line.  X at (0,0),(0,1) with
\* O at (1,0),(1,1) is in progress; X at (0,2) added, X wins with the line
\* (0,0),(0,1),(0,2).
\* ------------------------------------------------------------------------
InProgressExample == BoardOf(<<<<"X", "X", "">>, <<"O", "O", "">>, <<"", "", "">>>>)

WonExample == BoardOf(<<<<"X", "X", "X">>, <<"O", "O", "">>, <<"", "", "">>>>)

ReportsWin(res) == res.winner \notin {None, "TIE"}

C5_GetWinnerClassifies ==
    last.kind = "get_winner" =>
        /\ ReportsWin(last.res) <=> (HasLine(board, "X") \/ HasLine(board, "O"))
        /\ ReportsWin(last.res) =>
              /\ CellsOf(last.res.combo) \in Lines(BOARD_SIZE)
              /\ Len(last.res.combo) = BOARD_SIZE
              /\ \E m \in {"X", "O"} : Filled(board, CellsOf(last.res.combo), m)
              /\ last.res.winner = "X" =>
                    Filled(board, CellsOf(last.res.combo), "X")
        /\ ~ReportsWin(last.res) =>
              /\ last.res.combo = <<>>
              /\ last.res.winner = "TIE" <=> Count(board, "") = 0
              /\ last.res.winner = None <=> Count(board, "") > 0
        /\ SameBoard(board, InProgressExample) =>
              last.res = [winner |-> None, combo |-> <<>>]
        /\ SameBoard(board, WonExample) =>
              last.res = [winner |-> "X",
                          combo |-> <<<<0, 0>>, <<0, 1>>, <<0, 2>>>>]

\* get_winner was applied to the won example
C5_WonExampleClassified ==
    /\ last.kind = "get_winner"
    /\ SameBoard(board, WonExample)
    /\ last.res.winner = "X"

\* ------------------------------------------------------------------------
\* C6 (as stated): a minimax call at depth d on a decided board returns
\* 10 - d when O has a complete line, -10 + d when X has one, and 0 when the
\* board is full without a line.  get_winner names the win of O "Y" while
\* minimax tests for "O", so a board won by O is scored by the heuristic.
\* ------------------------------------------------------------------------
C6_DecidedBoardsScoredExactly ==
    last.kind = "minimax" =>
        /\ (HasLine(last.board_before, "O") /\ ~HasLine(last.board_before, "X"))
              => last.score = 10 - last.depth
        /\ (HasLine(last.board_before, "X") /\ ~HasLine(last.board_before, "O"))
              => last.score = -10 + last.depth
        /\ (/\ ~HasLine(last.board_before, "X")
            /\ ~HasLine(last.board_before, "O")
            /\ Count(last.board_before, "") = 0)
              => last.score = 0

\* ------------------------------------------------------------------------
\* C7: for a board of size n >= 1, _get_winning_combos returns 2n + 2 lines:
\* the n rows, then the n columns, then the main diagonal and the
\* anti-diagonal; each line has n distinct cells of the board, and every cell
\* of the board lies on at least two of the lines.
\* ------------------------------------------------------------------------
C7_WinningCombosShape ==
    last.kind = "get_winning_combos" =>
        /\ Len(last.res) = 2 * last.n + 2
        /\ \A r \in Idx(last.n) : CellsOf(last.res[r + 1]) = RowCells(last.n, r)
        /\ \A c \in Idx(last.n) :
              CellsOf(last.res[last.n + c + 1]) = ColumnCells(last.n, c)
        /\ CellsOf(last.res[2 * last.n + 1]) = DiagonalCells(last.n)
        /\ CellsOf(last.res[2 * last.n + 2]) = AntiDiagonalCells(last.n)
        /\ \A i \in 1 .. Len(last.res) :
              /\ Len(last.res[i]) = last.n
              /\ Cardinality(CellsOf(last.res[i])) = last.n
              /\ CellsOf(last.res[i]) \subseteq Idx(last.n) \X Idx(last.n)
        /\ \A rc \in Idx(last.n) \X Idx(last.n) :
              Cardinality({i \in 1 .. Len(last.res) :
                              rc \in CellsOf(last.res[i])}) >= 2

\* the lines of the largest board were computed
C7_LargestBoardEnumerated ==
    /\ last.kind = "get_winning_combos"
    /\ last.n = MaxN
    /\ Len(last.res) = 2 * MaxN + 2

\* ------------------------------------------------------------------------
\* C8: after every click and every reset the board holds as many X as O, or
\* one X more; an accepted click places X, the AI's reply places O, and on
\* an empty board (a new game) the player to place the first mark is X.
\* ------------------------------------------------------------------------
C8_XLeadsByAtMostOne ==
    /\ Count(board, "X") - Count(board, "O") \in {0, 1}
    /\ (last.kind = "play" /\ last.accepted) =>
          /\ last.label = "X"
          /\ board[last.row][last.col] = "X"
    /\ (last.ai_called /\ last.ai_move # NoMove) =>
          /\ last.ai_label = "O"
          /\ board[last.ai_move[1]][last.ai_move[2]] = "O"
    /\ Count(board, "") = BOARD_SIZE * BOARD_SIZE => current_player = "X"

\* a click answered by the AI, in a game with two marks of O
C8_ClickAnsweredByAi ==
    /\ last.kind = "play"
    /\ last.accepted
    /\ last.ai_called
    /\ Count(board, "O") >= 2

\* ------------------------------------------------------------------------
\* C9: the game loop calls ai only on a board without a complete line and
\* with an empty cell; ai then returns a cell (not None) that is empty on
\* that board; and outside reset_board no mark on the board ever changes.
\* ------------------------------------------------------------------------
C9_AiCalledOnOpenBoardOnly ==
    [][/\ last'.ai_called =>
             /\ ~HasLine(last'.ai_board, "X")
             /\ ~HasLine(last'.ai_board, "O")
             /\ Count(last'.ai_board, "") >= 1
             /\ last'.ai_move # NoMove
             /\ last'.ai_move \in Cells
             /\ last'.ai_board[last'.ai_move[1]][last'.ai_move[2]] = ""
       /\ last'.kind # "reset" =>
             \A rc \in Cells :
                 board[rc[1]][rc[2]] # "" =>
                     board'[rc[1]][rc[2]] = board[rc[1]][rc[2]]
      ]_vars

\* ai was called on a board with its last two empty cells
C9_AiCalledLate ==
    /\ last.ai_called
    /\ Count(last.ai_board, "") = 2
    /\ last.ai_move # NoMove

\* ------------------------------------------------------------------------
\* C10: on a board with an empty cell, ai returns the first cell in
\* row-major order among the empty cells whose move scores highest, the
\* score of a cell being minimax(False, -inf, inf, bound) on the board with
\* O placed there.
\* ------------------------------------------------------------------------
\* the score ai obtains for the empty cell rc of b
MoveScore(b, cl, rc) ==
    minimax(Place(b, rc[1], rc[2], "O"), FALSE, NegInf, PosInf,
            DepthBound(cl), 0).score

EmptyCells(b) == {rc \in Cells : b[rc[1]][rc[2]] = ""}

\* best, scoring best_score, is the first of the highest-scoring cells
FirstBest(b, cl, best, best_score) ==
    /\ best \in EmptyCells(b)
    /\ \A rc \in EmptyCells(b) :
          IF rc = best THEN MoveScore(b, cl, rc) = best_score
          ELSE IF RowMajorLeq(best, rc)
               THEN MoveScore(b, cl, rc) <= best_score
               ELSE MoveScore(b, cl, rc) < best_score

C10_AiReturnsFirstBestCell ==
    (last.kind = "ai" /\ Count(last.board_before, "") >= 1) =>
        FirstBest(last.board_before, last.cells_left, last.best_move,
                  last.best_score)

\* ai chose between two cells of equal, highest score
C10_TieBrokenByOrder ==
    /\ last.kind = "ai"
    /\ \E rc \in EmptyCells(last.board_before) :
          /\ rc # last.best_move
          /\ MoveScore(last.board_before, last.cells_left, rc) = last.best_score

\* ------------------------------------------------------------------------
\* C11: whatever the game was (in progress, won by X, won by O, tied),
\* reset_board leaves every cell empty, _has_winner False, winner_combo
\* empty and _cells_left at BOARD_SIZE * BOARD_SIZE, and get_winner on the
\* board it leaves reports a game in progress (None, no line).  The winning
\* lines are computed once, in _setup_board, and no handler assigns them.
\* ------------------------------------------------------------------------
C11_ResetClearsGame ==
    [][last'.kind = "reset" =>
          /\ \A rc \in Cells : board'[rc[1]][rc[2]] = ""
          /\ ~_has_winner'
          /\ winner_combo' = <<>>
          /\ _cells_left' = BOARD_SIZE * BOARD_SIZE
          /\ get_winner(board') = [winner |-> None, combo |-> <<>>]
          /\ Len(winning_combos) = 2 * BOARD_SIZE + 2
      ]_vars

\* the game was reset and shows the empty board
C11_GameWasReset ==
    /\ last.kind = "reset"
    /\ Count(board, "") = BOARD_SIZE * BOARD_SIZE
    /\ ~_has_winner
    /\ display = "Ready?"

\* ------------------------------------------------------------------------
\* C12: after every click and every reset, _has_winner is True exactly when
\* some line of the board is filled with one mark, and X and O never both
\* have a complete line.
\* ------------------------------------------------------------------------
C12_FlagAgreesWithBoard ==
    /\ _has_winner <=> (HasLine(board, "X") \/ HasLine(board, "O"))
    /\ ~(HasLine(board, "X") /\ HasLine(board, "O"))

\* the AI's reply completed a line of O and the flag was set
C12_FlagSetByAiMove ==
    /\ last.kind = "play"
    /\ last.ai_called
    /\ HasLine(board, "O")
    /\ _has_winner

\* ------------------------------------------------------------------------
\* C13 (as stated): once beta <= alpha holds at a node of minimax, no further
\* empty cell of that node is placed and searched, in the current row or in
\* a later one.  The break leaves the column loop only: the row loop goes on,
\* and the first empty cell of every later row is still searched.
\* ------------------------------------------------------------------------
C13_NoCellSearchedPastCutoff ==
    last.kind = "minimax" => ~last.past_cutoff

\* ------------------------------------------------------------------------
\* C14 (as stated): whenever the game loop calls ai on a board on which some
\* empty cell completes a line of O, the cell ai returns completes a line
\* of O.
\* ------------------------------------------------------------------------
\* the empty cells of b on which a mark of O completes a line
WinningCells(b) ==
    {rc \in EmptyCells(b) : HasLine(Place(b, rc[1], rc[2], "O"), "O")}

C14_AiTakesImmediateWin ==
    (last.ai_called /\ WinningCells(last.ai_board) # {}) =>
        last.ai_move \in WinningCells(last.ai_board)

\* ------------------------------------------------------------------------
\* C15: the depth bound ai passes to minimax is
\* 2 + floor(2 * (N*N - cells_left) / (N*N)) for every cells_left in
\* 0 .. N*N; with N = 3 it is 2 for cells_left >= 5 and 3 for cells_left in
\* 1 .. 4; and the game loop calls ai with cells_left equal to the number
\* of empty cells left by the human's move, which is 8, 6, 4 or 2.
\* ------------------------------------------------------------------------
\* k is floor(num / den), for den > 0
IsFloor(k, num, den) == k * den <= num /\ num < (k + 1) * den

C15_DepthBoundFormula ==
    /\ \A cl \in CellsLeftRange :
          /\ IsFloor(DepthBound(cl) - 2,
                     2 * (BOARD_SIZE * BOARD_SIZE - cl),
                     BOARD_SIZE * BOARD_SIZE)
          /\ (BOARD_SIZE = 3 /\ cl >= 5) => DepthBound(cl) = 2
          /\ (BOARD_SIZE = 3 /\ cl \in 1 .. 4) => DepthBound(cl) = 3
    /\ last.ai_called =>
          /\ last.ai_cells_left = Count(last.ai_board, "")
          /\ last.ai_cells_left = _cells_left + 1
          /\ last.ai_cells_left \in {8, 6, 4, 2}

\* ai was called with two cells left, where the bound is 3
C15_AiCalledWithTwoCellsLeft ==
    /\ last.ai_called
    /\ last.ai_cells_left = 2
    /\ DepthBound(last.ai_cells_left) = 3

\* ------------------------------------------------------------------------
\* C16: when the game loop calls ai with cells_left <= 4, no minimax call of
\* the search returns through max_depth == depth on a board still in
\* progress: every branch ends on a board with a complete line or without
\* an empty cell.
\* ------------------------------------------------------------------------
C16_LateSearchIsExhaustive ==
    (last.ai_called /\ last.ai_cells_left <= 4) => ~last.ai_cut_open

\* a late search that went down to max_depth, on the full board
C16_LateSearchReachedBound ==
    /\ last.ai_called
    /\ last.ai_cells_left = 4
    /\ last.ai_deepest = DepthBound(4)
    /\ ~last.ai_cut_open

\* ------------------------------------------------------------------------
\* C17: on every board, heuristic_evaluation returns the number of lines
\* with at least one O and no X minus the number of lines with at least one
\* X and no O (lines with both marks or with none count 0); the result lies
\* in -(2N+2) .. (2N+2), and the board is left as it was.
\* ------------------------------------------------------------------------
\* some cell of the line carries mark m
Touches(b, line, m) == \E rc \in line : b[rc[1]][rc[2]] = m

\* the lines that mark m touches and the mark other does not
OpenLines(b, m, other) ==
    {line \in Lines(BOARD_SIZE) : Touches(b, line, m) /\ ~Touches(b, line, other)}

C17_HeuristicCountsOpenLines ==
    [][last'.kind = "heuristic_evaluation" =>
          /\ last'.res = Cardinality(OpenLines(board, "O", "X"))
                            - Cardinality(OpenLines(board, "X", "O"))
          /\ last'.res \in -(2 * BOARD_SIZE + 2) .. (2 * BOARD_SIZE + 2)
          /\ SameBoard(board', board)
      ]_vars

\* the heuristic was applied to a board with lines open for O, lines open
\* for X, lines with both marks and lines with none
C17_MixedBoardEvaluated ==
    /\ last.kind = "heuristic_evaluation"
    /\ OpenLines(board, "O", "X") # {}
    /\ OpenLines(board, "X", "O") # {}
    /\ \E line \in Lines(BOARD_SIZE) :
          Touches(board, line, "X") /\ Touches(board, line, "O")
    /\ \E line \in Lines(BOARD_SIZE) : Filled(board, line, "")
    /\ last.res < 0

\* ------------------------------------------------------------------------
\* C18 (as stated): a line completed by O is reported under the symbol "O"
\* that the cells carry, as a line completed by X is reported as "X": the
\* display shows Player "O" won! and Player "X" won!.  get_winner names the
\* win of O "Y", and _handle_game_end shows that name.
\* ------------------------------------------------------------------------
C18_WinnerNamedByItsMark ==
    /\ HasLine(board, "X") => display = "Player \"X\" won!"
    /\ HasLine(board, "O") =>
          /\ display = "Player \"O\" won!"
          /\ get_winner(board).winner = "O"

\* ------------------------------------------------------------------------
\* C19 (as stated): in test.py, after any clicks followed by reset_board the
\* current player is X, every accepted click places X, and the board holds
\* as many X as O or one X more.  reset_board calls toggle_player() whoever
\* the current player is, so a reset with X to move hands the human the mark
\* O.
\* ------------------------------------------------------------------------
C19_ResetGivesTurnToX ==
    /\ last.kind = "reset" => current_player = "X"
    /\ (last.kind = "play" /\ last.accepted) => last.label = "X"
    /\ Count(board, "X") - Count(board, "O") \in {0, 1}

\* ------------------------------------------------------------------------
\* C20: every call of ai and of minimax returns, and the parameter depth of
\* the minimax calls nested in it stays bounded: during ai(cells_left) it
\* never exceeds the depth bound nor the number of cells empty when minimax
\* is first entered; in a minimax call entered at depth d <= max_depth it
\* never exceeds max_depth and grows by at most one for each empty cell.
\* ------------------------------------------------------------------------
C20_RecursionDepthBounded ==
    /\ last.kind = "ai" =>
          /\ last.deepest >= 0
          /\ last.deepest <= DepthBound(last.cells_left)
          /\ last.deepest <= max(Count(last.board_before, "") - 1, 0)
    /\ last.kind = "minimax" =>
          /\ last.deepest >= last.depth
          /\ last.deepest <= last.max_depth
          /\ last.deepest - last.depth <= Count(last.board_before, "")

\* an ai call whose search stopped at the depth bound with cells still empty
C20_SearchStoppedAtBound ==
    /\ last.kind = "ai"
    /\ last.deepest = DepthBound(last.cells_left)
    /\ Count(last.board_before, "") - 1 > last.deepest
    /\ last.cut_open

\* ------------------------------------------------------------------------
\* C21: pruning does not change the decision of ai.  Whenever the game loop
\* calls ai, the score of every empty cell equals the value of a search with
\* the same depth bound and the same scoring of the boards it ends on that
\* tries every empty cell at every node, and the cell ai returns is the
\* first cell in row-major order whose value is highest.
\* ------------------------------------------------------------------------
SetMax(S) == CHOOSE x \in S : \A y \in S : y <= x

SetMin(S) == CHOOSE x \in S : \A y \in S : x <= y

\* the depth-limited minimax value of b without pruning
RECURSIVE FullSearch(_, _, _, _)
FullSearchBody(b, winner, is_maximizing, max_depth, depth) ==
    IF max_depth = depth \/ winner # None
    THEN TerminalScore(b, winner, depth)
    ELSE IF is_maximizing
         THEN SetMax({FullSearch(Place(b, rc[1], rc[2], "O"), FALSE,
                                 max_depth, depth + 1) : rc \in EmptyCells(b)})
         ELSE SetMin({FullSearch(Place(b, rc[1], rc[2], "X"), TRUE,
                                 max_depth, depth + 1) : rc \in EmptyCells(b)})

FullSearch(b, is_maximizing, max_depth, depth) ==
    FullSearchBody(b, get_winner(b).winner, is_maximizing, max_depth, depth)

\* the value of the empty cell rc of b for the AI, without pruning
FullScore(b, cl, rc) ==
    FullSearch(Place(b, rc[1], rc[2], "O"), FALSE, DepthBound(cl), 0)

C21_PruningKeepsDecision ==
    last.ai_called =>
        /\ \A rc \in EmptyCells(last.ai_board) :
              MoveScore(last.ai_board, last.ai_cells_left, rc)
                  = FullScore(last.ai_board, last.ai_cells_left, rc)
        /\ last.ai_move \in EmptyCells(last.ai_board)
        /\ \A rc \in EmptyCells(last.ai_board) :
              IF RowMajorLeq(last.ai_move, rc)
              THEN FullScore(last.ai_board, last.ai_cells_left, rc)
                     <= FullScore(last.ai_board, last.ai_cells_left,
                                  last.ai_move)
              ELSE FullScore(last.ai_board, last.ai_cells_left, rc)
                     < FullScore(last.ai_board, last.ai_cells_left,
                                 last.ai_move)

\* ai was called with six cells empty and its search met beta <= alpha
C21_SearchWithCutoff ==
    /\ last.ai_called
    /\ last.ai_cells_left = 6
    /\ ai(last.ai_board, last.ai_cells_left).past_cutoff

\* ------------------------------------------------------------------------
\* C22: after every click (accepted, with the AI's reply, or rejected) and
\* every reset_board, _cells_left is the number of empty cells of the board;
\* and the cells_left that ai receives is the number of empty cells of the
\* board it is called on.
\* ------------------------------------------------------------------------
C22_CellsLeftCountsEmptyCells ==
    /\ _cells_left = Count(board, "")
    /\ last.ai_called => last.ai_cells_left = Count(last.ai_board, "")

\* the AI's reply won the game and both marks of the click were counted
C22_CountedAfterAiWin ==
    /\ last.kind = "play"
    /\ last.accepted
    /\ last.ai_called
    /\ HasLine(board, "O")
    /\ _cells_left = Count(board, "")
    /\ _cells_left <= 4

====
